---- MODULE Spec2Model ----
(***************************************************************************)
(* Model of stargate: the permute package (UniqueRand, ParallelIterator,   *)
(* RandomParallelIterator), the RandomIPDialer with its prefix arithmetic, *)
(* the broadcast registry and the leak-safe bind+verify step.              *)
(*                                                                         *)
(* The program computes with math/big integers, uint32 and uint64; the     *)
(* interesting sizes (2^32, 2654435761, 2^64) do not fit the integers of   *)
(* the model checker, so every program integer is a natural number kept as *)
(* a little-endian sequence of limbs in base 2^15 without leading zero     *)
(* limbs (the representation math/big uses, with a smaller word).          *)
(***************************************************************************)
EXTENDS Integers, Sequences, FiniteSets, TLC

(***************************************************************************)
(* math/big naturals                                                       *)
(***************************************************************************)
LimbBits == 15
Base == 2^LimbBits

RECURSIVE BNorm(_)
BNorm(a) ==
    IF a = <<>> THEN <<>>
    ELSE IF a[Len(a)] = 0 THEN BNorm(SubSeq(a, 1, Len(a) - 1))
    ELSE a

\* big.NewInt(n), new(big.Int).SetUint64(n) for a small n
RECURSIVE Big(_)
Big(n) == IF n = 0 THEN <<>> ELSE <<n % Base>> \o Big(n \div Base)

Limb(a, i) == IF i <= Len(a) THEN a[i] ELSE 0

RECURSIVE AddC(_, _, _, _)
AddC(a, b, i, c) ==
    IF i > Len(a) /\ i > Len(b)
    THEN (IF c = 0 THEN <<>> ELSE <<c>>)
    ELSE LET s == Limb(a, i) + Limb(b, i) + c
         IN  <<s % Base>> \o AddC(a, b, i + 1, s \div Base)

\* (*big.Int).Add
BAdd(a, b) == AddC(a, b, 1, 0)

RECURSIVE SubC(_, _, _, _)
SubC(a, b, i, c) ==
    IF i > Len(a) THEN <<>>
    ELSE LET s == Limb(a, i) - Limb(b, i) - c
         IN  IF s < 0 THEN <<s + Base>> \o SubC(a, b, i + 1, 1)
             ELSE <<s>> \o SubC(a, b, i + 1, 0)

\* (*big.Int).Cmp(b) < 0
RECURSIVE LtFrom(_, _, _)
LtFrom(a, b, i) ==
    IF i = 0 THEN FALSE
    ELSE IF a[i] # b[i] THEN a[i] < b[i]
    ELSE LtFrom(a, b, i - 1)

BLt(a, b) ==
    IF Len(a) # Len(b) THEN Len(a) < Len(b) ELSE LtFrom(a, b, Len(a))

BLe(a, b) == ~BLt(b, a)

\* (*big.Int).Sub for a >= b (every subtraction of the program is of this kind
\* where the model uses it)
BSub(a, b) == BNorm(SubC(a, b, 1, 0))

RECURSIVE MulC(_, _, _, _)
MulC(a, d, i, c) ==
    IF i > Len(a)
    THEN (IF c = 0 THEN <<>> ELSE <<c>>)
    ELSE LET s == a[i] * d + c
         IN  <<s % Base>> \o MulC(a, d, i + 1, s \div Base)

ShiftLimb(a) == IF a = <<>> THEN <<>> ELSE <<0>> \o a

\* (*big.Int).Mul
RECURSIVE BMul(_, _)
BMul(a, b) ==
    IF a = <<>> \/ b = <<>> THEN <<>>
    ELSE BAdd(BNorm(MulC(a, b[1], 1, 0)), ShiftLimb(BMul(a, Tail(b))))

\* 1 << n as a big natural
BPow2(n) ==
    [i \in 1..((n \div LimbBits) + 1) |->
        IF i = (n \div LimbBits) + 1 THEN 2^(n % LimbBits) ELSE 0]

\* (*big.Int).Mod(x, m) for m > 0: schoolbook reduction, one limb of the
\* quotient per level, each limb found bit by bit
RECURSIVE Reduce(_, _, _)
Reduce(r, m, k) ==
    IF k < 0 THEN r
    ELSE LET mk == BNorm(MulC(m, 2^k, 1, 0))
         IN  IF BLt(r, mk) THEN Reduce(r, m, k - 1)
             ELSE Reduce(BSub(r, mk), m, k - 1)

RECURSIVE BMod(_, _)
BMod(x, m) ==
    IF BLt(x, m) THEN x
    ELSE Reduce(BMod(x, ShiftLimb(m)), m, LimbBits - 1)

\* a decimal literal written in groups of nine digits, most significant first
RECURSIVE Dec9(_)
Dec9(g) ==
    IF g = <<>> THEN <<>>
    ELSE BAdd(BMul(Dec9(SubSeq(g, 1, Len(g) - 1)), Big(1000000000)),
              Big(g[Len(g)]))

\* the value of a small big natural as a model integer
RECURSIVE Small(_)
Small(a) == IF a = <<>> THEN 0 ELSE a[1] + Base * Small(Tail(a))

Two32 == BPow2(32)
Two64 == BPow2(64)

\* uint32(x), uint64(x): the conversions of Go truncate
U32(x) == BMod(x, Two32)
U64(x) == BMod(x, Two64)


(***************************************************************************)
(* Bounds of the model                                                     *)
(***************************************************************************)
\* ranges [low, low+size) with low < MaxLow and 1 <= size <= MaxPermSize are
\* enumerated in full, next to the sizes at which the implementation
\* switches its path
MaxLow == 2
MaxPermSize == 6
\* indices 0..MaxIndex-1 are probed on every range
MaxIndex == 6

(***************************************************************************)
(* package permute: UniqueRand                                             *)
(***************************************************************************)
multiplier == Dec9(<<2, 654435761>>)

alternativeMultipliers ==
    << Dec9(<<2, 654435761>>),   \* 0x9E3779B1
       Dec9(<<2, 246822507>>),   \* 0x85EBCA6B
       Dec9(<<3, 266489917>>),   \* 0xC2B2AE3D
       Dec9(<<2, 692095333>>) >> \* 0xA0761D65

lcg32a == Big(1664525)
lcg32c == Big(1013904223)
lcg64a == Dec9(<<6, 364136223, 846793005>>)
lcg64c == Dec9(<<1, 442695040, 888963407>>)

\* (*big.Int).IsUint64
IsUint64(x) == BLt(x, Two64)

\* NewUniqueRand rejecting low >= high
NewUniqueRandGe(low, high) ==
    IF BLe(high, low) THEN [err |-> TRUE]
    ELSE LET size == BSub(high, low)
             is32 == IsUint64(size) /\ BLe(U64(size), Two32)
             is64 == ~is32 /\ IsUint64(size)
         IN  [err     |-> FALSE,
              low     |-> low,
              size    |-> size,
              is32bit |-> is32,
              is64bit |-> is64,
              size32  |-> IF is32 THEN U32(U64(size)) ELSE <<>>,
              size64  |-> IF is64 THEN U64(size) ELSE <<>>]

\* NewUniqueRand(low, high): the iterator, or an error when low > high
NewUniqueRand(low, high) ==
    IF BLt(high, low) THEN [err |-> TRUE]
    ELSE LET size == BSub(high, low)
             is32 == IsUint64(size) /\ BLe(U64(size), Two32)
             is64 == ~is32 /\ IsUint64(size)
         IN  [err     |-> FALSE,
              low     |-> low,
              size    |-> size,
              is32bit |-> is32,
              is64bit |-> is64,
              size32  |-> IF is32 THEN U32(U64(size)) ELSE <<>>,
              size64  |-> IF is64 THEN U64(size) ELSE <<>>]

\* the first alternative multiplier, from position i on, whose residue is
\* neither 0 nor 1; <<>> when there is none
RECURSIVE FirstAlternative(_, _)
FirstAlternative(modulus, i) ==
    IF i > Len(alternativeMultipliers) THEN <<>>
    ELSE LET r == BMod(alternativeMultipliers[i], U64(modulus))
         IN  IF r # <<1>> /\ r # <<>> THEN alternativeMultipliers[i]
             ELSE FirstAlternative(modulus, i + 1)

\* the fallback of permute32 without the product a*x
permute32Increment(x, modulus) == U32(BMod(lcg32c, U64(modulus)))

\* the fallback of permute32: (uint64(x)*a + c) % uint64(modulus)
permute32LCG(x, modulus) ==
    U32(BMod(U64(BAdd(U64(BMul(U64(x), lcg32a)), lcg32c)), U64(modulus)))

\* (ur *UniqueRand).permute32(x, modulus uint32) uint32
permute32(x, modulus) ==
    IF BLe(modulus, <<1>>) THEN <<>>
    ELSE IF BMod(multiplier, U64(modulus)) = <<1>>
    THEN LET alt == FirstAlternative(modulus, 1)
         IN  IF alt # <<>>
             THEN U32(BMod(U64(BMul(U64(x), alt)), U64(modulus)))
             ELSE permute32LCG(x, modulus)
    ELSE U32(BMod(U64(BMul(U64(x), multiplier)), U64(modulus)))

\* (ur *UniqueRand).permute64(x, modulus uint64) uint64
permute64(x, modulus) ==
    IF BLe(modulus, <<1>>) THEN <<>>
    ELSE U64(BMod(BAdd(BMul(x, lcg64a), lcg64c), modulus))

\* (ur *UniqueRand).permuteBig(index)
permuteBig(u, index) ==
    BAdd(BMod(BAdd(BMul(index, lcg64a), lcg64c), u.size), u.low)

\* (ur *UniqueRand).NextAt(index)
NextAt(u, index) ==
    IF u.is32bit
    THEN BAdd(U64(permute32(U32(U64(index)), u.size32)), u.low)
    ELSE IF u.is64bit
    THEN BAdd(permute64(U64(index), u.size64), u.low)
    ELSE permuteBig(u, index)


(***************************************************************************)
(* package permute: ParallelIterator and RandomParallelIterator            *)
(***************************************************************************)
\* NewParallelIterator(low, high): the counter starts at 0
NewParallelIterator(low, high) ==
    LET u == NewUniqueRand(low, high)
    IN  IF u.err THEN [err |-> TRUE]
        ELSE [err |-> FALSE, ur |-> u, index |-> <<>>]

\* the add on a counter two bits wide
AtomicAddUint2(v) == BMod(BAdd(v, <<1>>), <<4>>)

\* atomic.AddUint64(&pi.index, 1): the new value wraps at 2^64
AtomicAddUint64(v) == U64(BAdd(v, <<1>>))

\* (pi *ParallelIterator).Next() once the counter value idx has been taken
PINext(p, idx) ==
    IF BLe(p.ur.size, idx) THEN [ok |-> FALSE]
    ELSE [ok |-> TRUE, val |-> NextAt(p.ur, idx)]

\* NewRandomParallelIterator(low, high) with the two offsets rand.Int drew
NewRandomParallelIterator(low, high, rangeOffset, outputOffset) ==
    IF BLt(high, low) THEN [err |-> TRUE]
    ELSE LET p == NewParallelIterator(BAdd(low, rangeOffset),
                                      BAdd(high, rangeOffset))
         IN  IF p.err THEN [err |-> TRUE]
             ELSE [err          |-> FALSE,
                   iter         |-> p,
                   rangeOffset  |-> rangeOffset,
                   outputOffset |-> outputOffset,
                   originalLow  |-> low,
                   originalHigh |-> high,
                   size         |-> BSub(high, low)]

\* Next() that leaves the range offset in the value it rotates
RPINextKeepRange(ri, idx) ==
    LET inner == PINext(ri.iter, idx)
    IN  IF ~inner.ok THEN [ok |-> FALSE]
        ELSE LET randomizedNum == BMod(BAdd(inner.val, ri.outputOffset),
                                       ri.size)
             IN  [ok    |-> TRUE,
                  inner |-> inner.val,
                  val   |-> BAdd(randomizedNum, ri.originalLow)]

\* Next() that also subtracts the lower bound before the rotation
RPINextMinusLow(ri, idx) ==
    LET inner == PINext(ri.iter, idx)
    IN  IF ~inner.ok THEN [ok |-> FALSE]
        ELSE LET originalNum   == BSub(BSub(inner.val, ri.rangeOffset),
                                       ri.originalLow)
                 randomizedNum == BMod(BAdd(originalNum, ri.outputOffset),
                                       ri.size)
             IN  [ok    |-> TRUE,
                  inner |-> inner.val,
                  val   |-> BAdd(randomizedNum, ri.originalLow)]

\* (ri *RandomParallelIterator).Next() once ri.iter.Next() has taken idx
RPINext(ri, idx) ==
    LET inner == PINext(ri.iter, idx)
    IN  IF ~inner.ok THEN [ok |-> FALSE]
        ELSE LET originalNum   == BSub(inner.val, ri.rangeOffset)
                 randomizedNum == BMod(BAdd(originalNum, ri.outputOffset),
                                       ri.size)
             IN  [ok    |-> TRUE,
                  inner |-> inner.val,
                  val   |-> BAdd(randomizedNum, ri.originalLow)]

\* NewRandomUniqueRand(low, high) with the two offsets rand.Int drew
NewRandomUniqueRand(low, high, rangeOffset, outputOffset) ==
    IF BLt(high, low) THEN [err |-> TRUE]
    ELSE LET u == NewUniqueRand(BAdd(low, rangeOffset),
                                BAdd(high, rangeOffset))
         IN  IF u.err THEN [err |-> TRUE]
             ELSE [err          |-> FALSE,
                   iter         |-> u,
                   rangeOffset  |-> rangeOffset,
                   outputOffset |-> outputOffset,
                   originalLow  |-> low,
                   originalHigh |-> high,
                   size         |-> BSub(high, low)]

\* (ru *RandomUniqueRand).NextAt(index)
RURNextAt(ru, index) ==
    LET shiftedNum    == NextAt(ru.iter, index)
        originalNum   == BSub(shiftedNum, ru.rangeOffset)
        randomizedNum == BMod(BAdd(originalNum, ru.outputOffset), ru.size)
    IN  BAdd(randomizedNum, ru.originalLow)

(***************************************************************************)
(* Prefix arithmetic (random_dialer.go) and the broadcast scan             *)
(***************************************************************************)
\* a netip.Prefix: the address as it was written (ParsePrefix and PrefixFrom
\* keep the host bits), the family and the prefix length
Pfx(is4, addr, bits) == [is4 |-> is4, addr |-> addr, bits |-> bits]

AddrBits(is4) == IF is4 THEN 32 ELSE 128

\* the address with its low n bits cleared
ClearLow(a, n) == BSub(a, BMod(a, BPow2(n)))

\* netip.Prefix.Contains(ip): the family and the top bits agree
Contains(network, ip) ==
    /\ network.is4 = ip.is4
    /\ ClearLow(network.addr, AddrBits(network.is4) - network.bits)
         = ClearLow(ip.a, AddrBits(network.is4) - network.bits)

\* subnetCount64 with a result that is not cut to 64 bits
subnetCountWide(network, newBits) ==
    IF newBits <= network.bits THEN <<>>
    ELSE LET additionalBits == newBits - network.bits
         IN  IF network.is4 /\ additionalBits > 32 THEN <<>>
             ELSE IF ~network.is4 /\ additionalBits > 128 THEN <<>>
             ELSE BPow2(additionalBits)

\* subnetCount64(network, newBits) uint64
subnetCount64(network, newBits) ==
    IF newBits <= network.bits THEN <<>>
    ELSE LET additionalBits == newBits - network.bits
         IN  IF network.is4 /\ additionalBits > 32 THEN <<>>
             ELSE IF ~network.is4 /\ additionalBits > 128 THEN <<>>
             ELSE U64(BPow2(additionalBits))

\* nthSubnetIPv4: uint32 arithmetic; a negative shift count panics
nthSubnetIPv4(network, newBits, n) ==
    LET shift == 32 - newBits
    IN  IF shift < 0 THEN [panic |-> TRUE, ok |-> FALSE]
        ELSE LET baseInt   == U32(network.addr)
                 subnetInt == U32(BAdd(baseInt,
                                       U32(BMul(U32(n), BPow2(shift)))))
             IN  [panic |-> FALSE, ok |-> TRUE,
                  prefix |-> Pfx(TRUE, subnetInt, newBits)]

\* nthSubnetIPv6: big.Int arithmetic. With a negative shift, uint(shift) is
\* about 2^64: Lsh of a non-zero n cannot allocate its result, Lsh of zero is
\* zero and PrefixFrom gives the out-of-range width as -1
nthSubnetIPv6(network, newBits, n) ==
    LET shift == 128 - newBits
    IN  IF shift < 0
        THEN IF n # <<>> THEN [panic |-> TRUE, ok |-> FALSE]
             ELSE [panic |-> FALSE, ok |-> TRUE,
                   prefix |-> Pfx(FALSE, network.addr, -1)]
        ELSE LET subnetInt == BAdd(network.addr, BMul(n, BPow2(shift)))
             IN  IF BLe(BPow2(128), subnetInt)
                 THEN [panic |-> FALSE, ok |-> FALSE]
                 ELSE [panic |-> FALSE, ok |-> TRUE,
                       prefix |-> Pfx(FALSE, subnetInt, newBits)]

\* nthSubnet(network, newBits, n)
nthSubnet(network, newBits, n) ==
    IF newBits < network.bits THEN [panic |-> FALSE, ok |-> FALSE]
    ELSE LET count == subnetCount64(network, newBits)
         IN  IF count = <<>> \/ BLe(count, n)
             THEN [panic |-> FALSE, ok |-> FALSE]
             ELSE IF network.is4 THEN nthSubnetIPv4(network, newBits, n)
             ELSE nthSubnetIPv6(network, newBits, n)

\* randomIP(cidr): the network bits of cidr.IP under cidr.Mask, the host bits
\* from the random bytes rb
randomIP(subnet, rb) ==
    LET hostBits == AddrBits(subnet.is4) - subnet.bits
    IN  [is4 |-> subnet.is4,
         a   |-> BAdd(ClearLow(subnet.addr, hostBits),
                      BMod(rb, BPow2(hostBits)))]

\* getBroadcastAddressFromAddr: ip | ^mask on the four bytes of an IPv4
\* interface address
getBroadcastAddressFromAddr(ifaddr) ==
    [is4 |-> TRUE,
     a   |-> BAdd(ClearLow(ifaddr.addr, 32 - ifaddr.bits),
                  BSub(BPow2(32 - ifaddr.bits), <<1>>))]

\* the addresses CheckHostConflicts(prefix) registers and returns for the
\* interface addresses addrs
CheckHostConflictsOf(network, addrs) ==
    { getBroadcastAddressFromAddr(a) :
        a \in { b \in addrs : b.is4 /\
                  Contains(network, getBroadcastAddressFromAddr(b)) } }

\* an interface address of family IPv6 inside ::ffff:0:0/96: IP.To4() is not
\* nil and the mask has 16 bytes
IsMapped(ifaddr) ==
    /\ ~ifaddr.is4
    /\ ClearLow(ifaddr.addr, 32) = BMul(Big(65535), Two32)

\* CheckHostConflicts returns the error of getBroadcastAddressFromAddr
\* ("invalid IPv4 mask length") when it comes to such an address
ScanFails(addrs) == \E b \in addrs : IsMapped(b)

(***************************************************************************)
(* State                                                                   *)
(***************************************************************************)
VARIABLES
    ur,             \* a UniqueRand under test (pure-function specification)
    out,            \* the pairs <<index, NextAt(index)>> computed on ur
    iters,          \* every RandomParallelIterator allocated so far
    cur,            \* RandomIPDialer.iterator: position in iters (0: none)
    calls,          \* completed Next() calls of the iterator specification
    prefix,         \* RandomIPDialer.prefix (main's parsedNetwork)
    cidrBits,       \* RandomIPDialer.cidrBits (main's *subnetBits)
    subnetCount,    \* RandomIPDialer.subnetCount
    mainpc,         \* position of main
    interfaces,     \* the interface addresses net.Interfaces() reports
    broadcastAddrs, \* the global registry broadcastAddrs
    conflictIPs,    \* what CheckHostConflicts returned
    pc,             \* position of every task inside Dial / Next
    loc,            \* the locals of every task
    trace,          \* the NextIP results in the order they were returned
    callers,        \* the tasks that have called Dial
    dials,          \* number of Dial / Next calls started
    inputChan,      \* test(): the buffered channel of testDial values
    chanClosed,     \* test(): close(inputChan) has run
    failed,         \* test(): the atomic counter failed
    tested,         \* test(): the atomic counter tested
    grpErr,         \* test(): the first error a goroutine of the group returned
    prod,           \* test(): the input goroutine: position, i, pending value
    ctxDone         \* test(): the context passed to test() is cancelled

vars == <<ur, out, iters, cur, calls, prefix, cidrBits, subnetCount, mainpc,
          interfaces, broadcastAddrs, conflictIPs, pc, loc, trace,
          callers, dials, inputChan, chanClosed, failed, tested, grpErr,
          prod, ctxDone>>

testVars == <<inputChan, chanClosed, failed, tested, grpErr, prod, ctxDone>>

permVars   == <<ur, out>>
configVars == <<prefix, cidrBits, subnetCount, interfaces, broadcastAddrs,
                conflictIPs>>

\* number of concurrent tasks (SOCKS connections, test goroutines)
NumTasks == 2
Tasks == 1..NumTasks
\* Dial calls started in one behaviour
MaxDials == 5
\* Next calls started in one behaviour of the iterator specification
MaxCalls == 5
\* ranges of 0..MaxIterSize elements are drained in full
MaxIterSize == 3
\* how many of the sample offset pairs a constructor may draw
NumOffsets == 2

IPv4(a, b, c, d) == BAdd(BMul(Big(a * 256 + b), BPow2(16)), Big(c * 256 + d))
\* 2001:db8::
Doc6 == BMul(IPv4(32, 1, 13, 184), BPow2(96))

\* pairs (rangeOffset, outputOffset) the two rand.Int(rand.Reader, 1<<32)
\* calls of a constructor can return
OffsetSamples ==
    << << <<>>, <<1>> >>,
       << BSub(Two32, <<1>>), <<>> >>,
       << Big(1000003), BSub(Two32, <<1>>) >>,
       << <<1>>, Big(1000003) >> >>
Offsets == { OffsetSamples[i] : i \in 1..NumOffsets }

\* bytes rand.Intn(256) can fill an address with: all zero, all ones
RandomBytes == { <<>>, BSub(BPow2(128), <<1>>) }

\* test() is not running
NoProd == [pc |-> "off", i |-> 0, item |-> <<>>]
TestIdle ==
    /\ inputChan = <<>>
    /\ chanClosed = FALSE
    /\ failed = 0
    /\ tested = 0
    /\ grpErr = "nil"
    /\ prod = NoProd
    /\ ctxDone = FALSE

NoRes == [kind |-> "none"]
NoLoc == [itp |-> 0, idx |-> <<>>, phase |-> 0, snap |-> -1, exh |-> FALSE,
          ip |-> [is4 |-> TRUE, a |-> <<>>], conn |-> <<>>, res |-> NoRes,
          item |-> 0, afterFail |-> FALSE, attempts |-> 0, drawn |-> 0]

(***************************************************************************)
(* cmd/main.go: validation of the command line                             *)
(***************************************************************************)
\* main: the inner width main passes on, or a fatal exit
MainValidate(network, flag) ==
    LET maxNetworkBits == AddrBits(network.is4)
        subnetBits     == IF flag = 0 THEN maxNetworkBits ELSE flag
    IN  IF flag # 0 /\ flag < network.bits THEN [ok |-> FALSE]
        ELSE IF subnetBits - network.bits > 64 THEN [ok |-> FALSE]
        ELSE [ok |-> TRUE, subnetBits |-> subnetBits]

\* command lines: CIDR as netip.ParsePrefix returns it, and -subnet-size
CmdLines ==
    { [cidr |-> Pfx(TRUE, IPv4(10, 0, 0, 0), 24), flag |-> 26],
      [cidr |-> Pfx(TRUE, IPv4(10, 0, 0, 1), 31), flag |-> 32],
      [cidr |-> Pfx(FALSE, Doc6, 32), flag |-> 64],
      [cidr |-> Pfx(TRUE, IPv4(10, 0, 0, 0), 24), flag |-> 16],
      [cidr |-> Pfx(TRUE, IPv4(10, 0, 0, 0), 24), flag |-> 33],
      [cidr |-> Pfx(FALSE, BSub(BPow2(128), <<1>>), 127), flag |-> 128] }

\* what net.Interfaces() reports on the host
HostInterfaces ==
    { Pfx(TRUE, IPv4(10, 0, 0, 5), 24), Pfx(FALSE, BAdd(Doc6, <<1>>), 64) }

(***************************************************************************)
(* The proxy: main, RandomIPDialer, createDialerWithSourceIP               *)
(***************************************************************************)
Networks == {"tcp", "udp", "unix"}

\* the address the kernel falls back to when it does not honour the bind
HostIP(is4) ==
    [is4 |-> is4,
     a   |-> IF is4 THEN IPv4(192, 0, 2, 1) ELSE BAdd(Doc6, BPow2(100))]

Init ==
    /\ ur = [err |-> TRUE]
    /\ out = {}
    /\ iters = <<>>
    /\ cur = 0
    /\ calls = <<>>
    /\ \E cl \in CmdLines :
         LET m == MainValidate(cl.cidr, cl.flag)
         IN  /\ prefix = cl.cidr
             /\ cidrBits = IF m.ok THEN m.subnetBits ELSE cl.flag
             /\ mainpc = IF m.ok THEN "scan" ELSE "fatal"
    /\ subnetCount = <<>>
    /\ interfaces = HostInterfaces
    /\ broadcastAddrs = {}
    /\ conflictIPs = {}
    /\ pc = [t \in Tasks |-> "idle"]
    /\ loc = [t \in Tasks |-> NoLoc]
    /\ trace = <<>>
    /\ callers = {}
    /\ dials = 0
    /\ TestIdle

\* main: stargate.CheckHostConflicts(&parsedNetwork)
\* the loop ends at the first address whose scan fails: the addresses it
\* registered before are any part of the conflicts, nothing is returned and
\* main ends in l.Fatal
CheckHostConflicts ==
    /\ mainpc = "scan"
    /\ IF ScanFails(interfaces)
       THEN /\ \E done \in SUBSET CheckHostConflictsOf(prefix, interfaces) :
                 broadcastAddrs' = broadcastAddrs \cup done
            /\ conflictIPs' = {}
            /\ mainpc' = "fatal"
       ELSE /\ broadcastAddrs' =
                 broadcastAddrs \cup CheckHostConflictsOf(prefix, interfaces)
            /\ conflictIPs' = CheckHostConflictsOf(prefix, interfaces)
            /\ mainpc' = "new"
    /\ UNCHANGED <<testVars, permVars, iters, cur, calls, prefix, cidrBits, subnetCount,
                   interfaces, pc, loc, trace, callers, dials>>

\* runRandomSubnetProxy: NewRandomIPIterator(prefix, cidrBits), whose reset()
\* allocates the first iterator
NewRandomIPIterator ==
    /\ mainpc = "new"
    /\ LET count == subnetCount64(prefix, cidrBits)
       IN  IF count = <<>>
           THEN /\ mainpc' = "fatal"
                /\ UNCHANGED <<iters, cur, subnetCount>>
           ELSE /\ \E o \in Offsets :
                     iters' = Append(iters,
                        NewRandomParallelIterator(<<>>, count, o[1], o[2]))
                /\ cur' = Len(iters) + 1
                /\ subnetCount' = count
                /\ mainpc' = "serve"
    /\ UNCHANGED <<testVars, permVars, calls, prefix, cidrBits, interfaces,
                   broadcastAddrs, conflictIPs, pc, loc, trace, callers,
                   dials>>

\* Dial -> NextDial -> NextIP: the task reads it.iterator to call Next on it
Dial(t) ==
    /\ mainpc = "serve"
    /\ pc[t] = "idle"
    /\ dials < MaxDials
    /\ loc' = [loc EXCEPT ![t] = [NoLoc EXCEPT !.itp = cur, !.phase = 1]]
    /\ pc' = [pc EXCEPT ![t] = "add"]
    /\ callers' = callers \cup {t}
    /\ dials' = dials + 1
    /\ UNCHANGED <<testVars, permVars, iters, cur, calls, configVars, mainpc, trace>>

\* NextIP from it.iterator.Next() on, and NextDial. Next takes the counter
\* value with idx := atomic.AddUint64(&pi.index, 1) - 1; what follows is
\* local to the task. A first miss leads to reset(); after a second miss
\* index is nil and index.Uint64() panics. With an index: nthSubnet, the
\* net.IPNet (whose mask is nil for a width of -1, so that randomIP panics),
\* a random host in it and the closure bound to that host. loc[t].drawn
\* counts the indexes the call has taken from an iterator.
NextDial(t) ==
    /\ mainpc = "serve"
    /\ pc[t] = "add"
    /\ iters' = [iters EXCEPT ![loc[t].itp].iter.index = AtomicAddUint64(@)]
    /\ LET idx == iters[loc[t].itp].iter.index
           n   == RPINext(iters[loc[t].itp], idx)
           r   == nthSubnet(prefix, cidrBits, U64(n.val))
       IN  IF ~n.ok /\ loc[t].phase = 1
           THEN /\ pc' = [pc EXCEPT ![t] = "reset"]
                /\ UNCHANGED <<loc, mainpc, trace>>
           ELSE IF ~n.ok
           THEN /\ pc' = [pc EXCEPT ![t] = "panic"]
                /\ mainpc' = "crashed"
                /\ UNCHANGED <<loc, trace>>
           ELSE IF r.panic \/ (r.ok /\ r.prefix.bits < 0)
           THEN /\ pc' = [pc EXCEPT ![t] = "panic"]
                /\ mainpc' = "crashed"
                /\ loc' = [loc EXCEPT ![t].drawn = @ + 1]
                /\ UNCHANGED trace
           ELSE IF ~r.ok
           THEN /\ pc' = [pc EXCEPT ![t] = "done"]
                /\ loc' = [loc EXCEPT ![t].res = [kind |-> "error"],
                                      ![t].drawn = @ + 1]
                /\ UNCHANGED <<mainpc, trace>>
           ELSE /\ \E rb \in RandomBytes :
                     loc' = [loc EXCEPT ![t].ip = randomIP(r.prefix, rb),
                                        ![t].drawn = @ + 1]
                /\ trace' = Append(trace,
                              [it |-> loc[t].itp, subnet |-> r.prefix])
                /\ pc' = [pc EXCEPT ![t] = "bind"]
                /\ UNCHANGED mainpc
    /\ UNCHANGED <<testVars, permVars, cur, calls, configVars, callers, dials>>

\* (it *RandomIPDialer).reset(): it.iterator = NewRandomParallelIterator(0, n)
reset(t) ==
    /\ mainpc = "serve"
    /\ pc[t] = "reset"
    /\ \E o \in Offsets :
         iters' = Append(iters,
            NewRandomParallelIterator(<<>>, subnetCount, o[1], o[2]))
    /\ cur' = Len(iters) + 1
    /\ pc' = [pc EXCEPT ![t] = "load2"]
    /\ UNCHANGED <<testVars, permVars, calls, configVars, mainpc, loc, trace, callers,
                   dials>>

\* NextIP after reset(): index, _ = it.iterator.Next() reads it.iterator again
NextIPReload(t) ==
    /\ mainpc = "serve"
    /\ pc[t] = "load2"
    /\ loc' = [loc EXCEPT ![t].itp = cur, ![t].phase = 2]
    /\ pc' = [pc EXCEPT ![t] = "add"]
    /\ UNCHANGED <<testVars, permVars, iters, cur, calls, configVars, mainpc, trace,
                   callers, dials>>

\* what d.DialContext can do: fail, or connect from a local address the
\* kernel chose
DialOutcomes(sourceIP) ==
    { [err |-> TRUE] } \cup
    { [err |-> FALSE, local |-> a] : a \in {sourceIP, HostIP(sourceIP.is4)} }

\* createDialerWithSourceIP without the comparison of conn.LocalAddr() with
\* the source IP
BindNoVerify(registry, network, sourceIP, d) ==
    IF sourceIP \in registry
    THEN [res  |-> [kind |-> "IPBindBroadcastError", IP |-> sourceIP],
          conn |-> <<>>]
    ELSE IF network \notin {"tcp", "udp"}
    THEN [res |-> [kind |-> "error"], conn |-> <<>>]
    ELSE IF d.err
    THEN [res |-> [kind |-> "transport"], conn |-> <<>>]
    ELSE [res  |-> [kind |-> "conn"],
          conn |-> << [local |-> d.local, open |-> TRUE] >>]

\* createDialerWithSourceIP without the lookup in broadcastAddrs
BindNoBroadcastCheck(registry, network, sourceIP, d) ==
    IF network \notin {"tcp", "udp"}
    THEN [res |-> [kind |-> "error"], conn |-> <<>>]
    ELSE IF d.err
    THEN [res |-> [kind |-> "transport"], conn |-> <<>>]
    ELSE IF d.local # sourceIP
    THEN [res  |-> [kind |-> "IPBindLeakError", IP |-> sourceIP,
                    ActualIP |-> d.local],
          conn |-> << [local |-> d.local, open |-> FALSE] >>]
    ELSE [res  |-> [kind |-> "conn"],
          conn |-> << [local |-> d.local, open |-> TRUE] >>]

\* createDialerWithSourceIP(ctx, network, addr, sourceIP) when d.DialContext
\* does d: the error or connection returned (res) and the socket opened, if
\* any (conn)
BindVerify(registry, network, sourceIP, d) ==
    IF sourceIP \in registry
    THEN [res  |-> [kind |-> "IPBindBroadcastError", IP |-> sourceIP],
          conn |-> <<>>]
    ELSE IF network \notin {"tcp", "udp"}
    THEN [res |-> [kind |-> "error"], conn |-> <<>>]
    ELSE IF d.err
    THEN [res |-> [kind |-> "transport"], conn |-> <<>>]
    ELSE IF d.local # sourceIP
    THEN [res  |-> [kind |-> "IPBindLeakError", IP |-> sourceIP,
                    ActualIP |-> d.local],
          conn |-> << [local |-> d.local, open |-> FALSE] >>]
    ELSE [res  |-> [kind |-> "conn"],
          conn |-> << [local |-> d.local, open |-> TRUE] >>]

\* the closure NextDial returned is invoked: createDialerWithSourceIP, whose
\* result Dial returns; loc[t].attempts counts the invocations of the call
createDialerWithSourceIP(t) ==
    /\ mainpc = "serve"
    /\ pc[t] = "bind"
    /\ \E network \in Networks, d \in DialOutcomes(loc[t].ip) :
         LET b == BindVerify(broadcastAddrs, network, loc[t].ip, d)
         IN  loc' = [loc EXCEPT ![t].res = b.res, ![t].conn = b.conn,
                                ![t].attempts = @ + 1]
    /\ pc' = [pc EXCEPT ![t] = "done"]
    /\ UNCHANGED <<testVars, permVars, iters, cur, calls, configVars, mainpc, trace,
                   callers, dials>>

\* Dial has returned: the caller takes the connection or the error
Return(t) ==
    /\ mainpc = "serve"
    /\ pc[t] = "done"
    /\ pc' = [pc EXCEPT ![t] = "idle"]
    /\ loc' = [loc EXCEPT ![t] = NoLoc]
    /\ UNCHANGED <<testVars, permVars, iters, cur, calls, configVars, mainpc, trace,
                   callers, dials>>

Next ==
    \/ CheckHostConflicts
    \/ NewRandomIPIterator
    \/ \E t \in Tasks : Dial(t)
    \/ \E t \in Tasks : NextDial(t)
    \/ \E t \in Tasks : reset(t)
    \/ \E t \in Tasks : NextIPReload(t)
    \/ \E t \in Tasks : createDialerWithSourceIP(t)
    \/ \E t \in Tasks : Return(t)

Spec == Init /\ [][Next]_vars


(***************************************************************************)
(* A RandomParallelIterator shared by the tasks, each calling Next()       *)
(***************************************************************************)
\* the ranges [low, high) an iterator is built over: the small ones, which are
\* drained, and the range of 2^32 elements a /32 prefix cut into /64 has
IterRanges ==
    { <<Big(l), Big(l + n)>> : l \in 0..(MaxLow - 1), n \in 0..MaxIterSize }
    \cup { << <<>>, Two32 >> }

InitIter ==
    /\ ur = [err |-> TRUE]
    /\ out = {}
    /\ \E r \in IterRanges, o \in Offsets :
         iters = << NewRandomParallelIterator(r[1], r[2], o[1], o[2]) >>
    /\ cur = 1
    /\ calls = <<>>
    /\ prefix = Pfx(TRUE, <<>>, 0)
    /\ cidrBits = 0
    /\ subnetCount = <<>>
    /\ mainpc = "drain"
    /\ interfaces = {}
    /\ broadcastAddrs = {}
    /\ conflictIPs = {}
    /\ pc = [t \in Tasks |-> "idle"]
    /\ loc = [t \in Tasks |-> NoLoc]
    /\ trace = <<>>
    /\ callers = {}
    /\ dials = 0
    /\ TestIdle

\* A call starts knowing what has completed before it: the largest counter
\* value a completed call has observed (snap, -1 when none) and whether a
\* completed call has returned false (exh).
RECURSIVE MaxIdx(_)
MaxIdx(cs) ==
    IF cs = <<>> THEN -1
    ELSE LET m == MaxIdx(Tail(cs))
         IN  IF cs[1].idx > m THEN cs[1].idx ELSE m

\* a task calls ri.Next()
IterInvoke(t) ==
    /\ mainpc = "drain"
    /\ pc[t] = "idle"
    /\ dials < MaxCalls
    /\ loc' = [loc EXCEPT ![t] =
                 [NoLoc EXCEPT !.itp = cur,
                               !.snap = MaxIdx(calls),
                               !.exh = \E i \in 1..Len(calls) : ~calls[i].ok]]
    /\ pc' = [pc EXCEPT ![t] = "add"]
    /\ dials' = dials + 1
    /\ UNCHANGED <<testVars, permVars, iters, cur, calls, configVars, mainpc, trace,
                   callers>>

\* ParallelIterator.Next: idx := atomic.AddUint64(&pi.index, 1) - 1
IterAdd(t) ==
    /\ mainpc = "drain"
    /\ pc[t] = "add"
    /\ loc' = [loc EXCEPT ![t].idx = iters[loc[t].itp].iter.index]
    /\ iters' = [iters EXCEPT ![loc[t].itp].iter.index = AtomicAddUint64(@)]
    /\ pc' = [pc EXCEPT ![t] = "ret"]
    /\ UNCHANGED <<testVars, permVars, cur, calls, configVars, mainpc, trace, callers,
                   dials>>

\* the rest of ParallelIterator.Next and of RandomParallelIterator.Next: the
\* call returns (value, true) or (nil, false)
IterReturn(t) ==
    /\ mainpc = "drain"
    /\ pc[t] = "ret"
    /\ LET r == RPINext(iters[loc[t].itp], loc[t].idx)
       IN  calls' = Append(calls,
                      [idx   |-> Small(loc[t].idx),
                       snap  |-> loc[t].snap,
                       exh   |-> loc[t].exh,
                       ok    |-> r.ok,
                       inner |-> IF r.ok THEN r.inner ELSE <<>>,
                       val   |-> IF r.ok THEN r.val ELSE <<>>])
    /\ pc' = [pc EXCEPT ![t] = "idle"]
    /\ loc' = [loc EXCEPT ![t] = NoLoc]
    /\ UNCHANGED <<testVars, permVars, iters, cur, configVars, mainpc, trace, callers,
                   dials>>

NextIter ==
    \/ \E t \in Tasks : IterInvoke(t)
    \/ \E t \in Tasks : IterAdd(t)
    \/ \E t \in Tasks : IterReturn(t)

SpecIter == InitIter /\ [][NextIter]_vars

(***************************************************************************)
(* UniqueRand.NextAt as a function of the range and the index              *)
(***************************************************************************)
\* sizes of the ranges: the small ones, whose every index is probed, and the
\* sizes at which NewUniqueRand and permute32 change path
PermSizes ==
    { Big(n) : n \in 1..MaxPermSize } \cup { Two32, multiplier }

InitPerm ==
    /\ \E l \in 0..(MaxLow - 1), n \in PermSizes :
         ur = NewUniqueRand(Big(l), BAdd(Big(l), n))
    /\ out = {}
    /\ iters = <<>>
    /\ cur = 0
    /\ calls = <<>>
    /\ prefix = Pfx(TRUE, <<>>, 0)
    /\ cidrBits = 0
    /\ subnetCount = <<>>
    /\ mainpc = "perm"
    /\ interfaces = {}
    /\ broadcastAddrs = {}
    /\ conflictIPs = {}
    /\ pc = [t \in Tasks |-> "idle"]
    /\ loc = [t \in Tasks |-> NoLoc]
    /\ trace = <<>>
    /\ callers = {}
    /\ dials = 0
    /\ TestIdle

\* ur.NextAt(index) for an index inside [0, size)
NextAtCall ==
    /\ mainpc = "perm"
    /\ \E i \in 0..(MaxIndex - 1) :
         /\ BLt(Big(i), ur.size)
         /\ \A o \in out : o[1] # i
         /\ out' = out \cup { <<i, NextAt(ur, Big(i))>> }
    /\ UNCHANGED <<testVars, ur, iters, cur, calls, configVars, mainpc, pc, loc, trace,
                   callers, dials>>

NextPerm == NextAtCall

SpecPerm == InitPerm /\ [][NextPerm]_vars


(***************************************************************************)
(* subnetCount64, nthSubnet and NewRandomIPIterator as library functions   *)
(***************************************************************************)
\* prefixes of both families, and inner widths around every limit the code
\* tests: k - p at 0, 1, 32, 64 and 65, k at the address width and above it
NetPrefixes ==
    { Pfx(TRUE, <<>>, 0),
      Pfx(TRUE, IPv4(10, 0, 0, 0), 24),
      Pfx(TRUE, IPv4(10, 0, 0, 1), 31),
      Pfx(FALSE, <<>>, 0),
      Pfx(FALSE, Doc6, 32),
      Pfx(FALSE, Doc6, 64),
      Pfx(FALSE, Doc6, 120) }
NetDeltas == {-1, 0, 1, 2, 32, 33, 64, 65}
NetWidthsOf(network) ==
    { k \in { network.bits + d : d \in NetDeltas }
              \cup { AddrBits(network.is4), AddrBits(network.is4) + 1 } :
        k >= 0 }

\* subnet indices around the count of the configuration
NthSamples(count) ==
    { <<>>, <<1>>, count, BAdd(count, <<1>>), BSub(Two64, <<1>>) }
    \cup (IF count = <<>> THEN {} ELSE { BSub(count, <<1>>) })

InitNet ==
    /\ ur = [err |-> TRUE]
    /\ out = {}
    /\ iters = <<>>
    /\ cur = 0
    /\ calls = <<>>
    /\ \E network \in NetPrefixes :
         /\ prefix = network
         /\ cidrBits \in NetWidthsOf(network)
    /\ subnetCount = <<>>
    /\ mainpc = "new"
    /\ interfaces = {}
    /\ broadcastAddrs = {}
    /\ conflictIPs = {}
    /\ pc = [t \in Tasks |-> "idle"]
    /\ loc = [t \in Tasks |-> NoLoc]
    /\ trace = <<>>
    /\ callers = {}
    /\ dials = 0
    /\ TestIdle

\* nthSubnet(prefix, cidrBits, n) for a sample index n
NthSubnetCall ==
    /\ mainpc \in {"serve", "fatal"}
    /\ \E n \in NthSamples(subnetCount64(prefix, cidrBits)) :
         /\ \A o \in out : o[1] # n
         /\ out' = out \cup { <<n, nthSubnet(prefix, cidrBits, n)>> }
    /\ UNCHANGED <<testVars, ur, iters, cur, calls, configVars, mainpc, pc, loc, trace,
                   callers, dials>>

NextNet ==
    \/ NewRandomIPIterator
    \/ NthSubnetCall

SpecNet == InitNet /\ [][NextNet]_vars

(***************************************************************************)
(* The four constructors of package permute                                *)
(***************************************************************************)
\* constructor calls recorded in one behaviour
MaxCtorCalls == 2

\* ranges: empty, one element, the sizes at which the representation changes
\* (2^32, 2^63, 2^127), and bounds in the wrong order
CtorLows == { <<>>, <<1>>, Big(5) }
CtorSizes == { <<>>, <<1>>, <<2>>, Two32, BPow2(63), BPow2(127) }
CtorRanges ==
    { <<l, BAdd(l, n)>> : l \in CtorLows, n \in CtorSizes }
    \cup { r \in CtorLows \X CtorLows : BLt(r[2], r[1]) }
    \cup { <<Two32, <<1>>>> }

InitCtor ==
    /\ ur = [err |-> TRUE]
    /\ out = {}
    /\ iters = <<>>
    /\ cur = 0
    /\ calls = <<>>
    /\ prefix = Pfx(TRUE, <<>>, 0)
    /\ cidrBits = 0
    /\ subnetCount = <<>>
    /\ mainpc = "ctor"
    /\ interfaces = {}
    /\ broadcastAddrs = {}
    /\ conflictIPs = {}
    /\ pc = [t \in Tasks |-> "idle"]
    /\ loc = [t \in Tasks |-> NoLoc]
    /\ trace = <<>>
    /\ callers = {}
    /\ dials = 0
    /\ TestIdle

\* a constructor has returned res for the range r
Returned(ctor, r, res) ==
    /\ mainpc = "ctor"
    /\ Cardinality(out) < MaxCtorCalls
    /\ out' = out \cup { [ctor |-> ctor, low |-> r[1], high |-> r[2],
                           res |-> res] }
    /\ UNCHANGED <<testVars, ur, iters, cur, calls, configVars, mainpc, pc, loc, trace,
                   callers, dials>>

NewUniqueRandCall ==
    \E r \in CtorRanges :
        Returned("NewUniqueRand", r, NewUniqueRand(r[1], r[2]))

NewParallelIteratorCall ==
    \E r \in CtorRanges :
        Returned("NewParallelIterator", r, NewParallelIterator(r[1], r[2]))

NewRandomParallelIteratorCall ==
    \E r \in CtorRanges, o \in Offsets :
        Returned("NewRandomParallelIterator", r,
                 NewRandomParallelIterator(r[1], r[2], o[1], o[2]))

NewRandomUniqueRandCall ==
    \E r \in CtorRanges, o \in Offsets :
        Returned("NewRandomUniqueRand", r,
                 NewRandomUniqueRand(r[1], r[2], o[1], o[2]))

NextCtor ==
    \/ NewUniqueRandCall
    \/ NewParallelIteratorCall
    \/ NewRandomParallelIteratorCall
    \/ NewRandomUniqueRandCall

SpecCtor == InitCtor /\ [][NextCtor]_vars

(***************************************************************************)
(* Test mode: test() of test.go, started by main after the broadcast scan  *)
(***************************************************************************)
\* the workers are the tasks; the channel has as many slots as there are
\* workers (testParallel in test.go)
TestParallel == NumTasks

\* values the input goroutine produces in one behaviour
MaxTests == 3

\* command lines of test mode: two /25 of a /24 whose broadcast address is
\* registered, two /32 of an unmasked /31, two /128 of the unmasked /127 at
\* the top of the IPv6 space, where the second subnet does not exist, and
\* the 2^32 /64 of a /32
TestCmdLines ==
    { [cidr |-> Pfx(TRUE, IPv4(10, 0, 0, 0), 24), flag |-> 25],
      [cidr |-> Pfx(TRUE, IPv4(10, 0, 0, 1), 31), flag |-> 32],
      [cidr |-> Pfx(FALSE, BSub(BPow2(128), <<1>>), 127), flag |-> 128],
      [cidr |-> Pfx(FALSE, Doc6, 32), flag |-> 64] }

InitTest ==
    /\ ur = [err |-> TRUE]
    /\ out = {}
    /\ iters = <<>>
    /\ cur = 0
    /\ calls = <<>>
    /\ \E cl \in TestCmdLines :
         /\ prefix = cl.cidr
         /\ cidrBits = MainValidate(cl.cidr, cl.flag).subnetBits
    /\ subnetCount = <<>>
    /\ mainpc = "test"
    /\ interfaces = HostInterfaces
    /\ broadcastAddrs = CheckHostConflictsOf(prefix, HostInterfaces)
    /\ conflictIPs = CheckHostConflictsOf(prefix, HostInterfaces)
    /\ pc = [t \in Tasks |-> "idle"]
    /\ loc = [t \in Tasks |-> NoLoc]
    /\ trace = <<>>
    /\ callers = {}
    /\ dials = 0
    /\ TestIdle

\* test(): NewRandomIPIterator, then the group with its input goroutine and
\* its workers
TestNew ==
    /\ mainpc = "test"
    /\ LET count == subnetCount64(prefix, cidrBits)
       IN  IF count = <<>>
           THEN /\ mainpc' = "exit1"
                /\ UNCHANGED <<iters, cur, subnetCount, prod>>
           ELSE /\ \E o \in Offsets :
                     iters' = Append(iters,
                        NewRandomParallelIterator(<<>>, count, o[1], o[2]))
                /\ cur' = Len(iters) + 1
                /\ subnetCount' = count
                /\ mainpc' = "run"
                /\ prod' = [pc |-> "loop", i |-> 0, item |-> <<>>]
    /\ UNCHANGED <<permVars, calls, prefix, cidrBits, interfaces,
                   broadcastAddrs, conflictIPs, pc, loc, trace, callers,
                   dials, inputChan, chanClosed, failed, tested, grpErr,
                   ctxDone>>

\* grpCtx.Done() is closed: a goroutine of the group has returned an error or
\* the context test() was given is cancelled
GrpCtxDone == grpErr # "nil" \/ ctxDone

\* the input goroutine returns err: the deferred close(inputChan) runs and
\* the group keeps the first non-nil error, which cancels grpCtx
ProducerReturns(err) ==
    /\ prod' = [prod EXCEPT !.pc = "done", !.item = <<>>]
    /\ chanClosed' = TRUE
    /\ grpErr' = IF grpErr = "nil" THEN err ELSE grpErr

\* NextDial of the input goroutine from the subnet index n on: nthSubnet, the
\* net.IPNet, randomIP, and the value to send; itp is the iterator asked
ProducerTakes(n, itp) ==
    LET r == nthSubnet(prefix, cidrBits, U64(n))
    IN  IF r.panic \/ (r.ok /\ r.prefix.bits < 0)
        THEN /\ mainpc' = "crashed"
             /\ UNCHANGED <<prod, chanClosed, grpErr, trace>>
        ELSE IF ~r.ok
        THEN /\ ProducerReturns("failed to get subnet")
             /\ UNCHANGED <<trace, mainpc>>
        ELSE /\ \E rb \in RandomBytes :
                  /\ prod' = [prod EXCEPT
                                !.pc = "send",
                                !.item = [id |-> prod.i + 1,
                                          ip |-> randomIP(r.prefix, rb)]]
                  /\ trace' = Append(trace,
                                [it     |-> itp,
                                 subnet |-> r.prefix,
                                 ip     |-> randomIP(r.prefix, rb)])
             /\ UNCHANGED <<chanClosed, grpErr, mainpc>>

\* one turn of the input loop up to the send: the loop test, the select on
\* grpCtx.Done(), and ipItr.NextDial(). No other goroutine uses ipItr, so
\* NextIP runs as a whole: Next(), and on exhaustion reset() and Next() on
\* the new iterator, whose nil index panics when that one is empty.
ProducerNextDial ==
    /\ mainpc = "run"
    /\ prod.pc = "loop"
    /\ prod.i < MaxTests \/ BLe(subnetCount, Big(prod.i))
    /\ IF BLe(subnetCount, Big(prod.i))
       THEN /\ ProducerReturns("nil")
            /\ UNCHANGED <<iters, cur, trace, mainpc>>
       ELSE IF GrpCtxDone
       THEN /\ ProducerReturns("context canceled")
            /\ UNCHANGED <<iters, cur, trace, mainpc>>
       ELSE LET n1 == RPINext(iters[cur], iters[cur].iter.index)
                used == [iters EXCEPT ![cur].iter.index = AtomicAddUint64(@)]
            IN  IF n1.ok
                THEN /\ iters' = used
                     /\ cur' = cur
                     /\ ProducerTakes(n1.val, cur)
                ELSE \E o \in Offsets :
                       LET fresh == NewRandomParallelIterator(
                                       <<>>, subnetCount, o[1], o[2])
                           n2    == RPINext(fresh, fresh.iter.index)
                       IN  /\ iters' = Append(used,
                                  [fresh EXCEPT
                                     !.iter.index = AtomicAddUint64(@)])
                           /\ cur' = Len(iters) + 1
                           /\ IF n2.ok
                              THEN ProducerTakes(n2.val, Len(iters) + 1)
                              ELSE /\ mainpc' = "crashed"
                                   /\ UNCHANGED <<prod, chanClosed, grpErr,
                                                  trace>>
    /\ UNCHANGED <<permVars, calls, configVars, pc, loc, callers, dials,
                   inputChan, failed, tested, ctxDone>>

\* inputChan <- &testDial{ip, dial}: blocks while the channel is full
ProducerSend ==
    /\ mainpc = "run"
    /\ prod.pc = "send"
    /\ Len(inputChan) < TestParallel
    /\ inputChan' = Append(inputChan, prod.item)
    /\ prod' = [prod EXCEPT !.pc = "loop", !.i = @ + 1, !.item = <<>>]
    /\ UNCHANGED <<permVars, iters, cur, calls, configVars, mainpc, pc, loc,
                   trace, callers, dials, chanClosed, failed, tested, grpErr,
                   ctxDone>>

\* a worker receives a testDial and counts it in tested
WorkerRecv(t) ==
    /\ mainpc = "run"
    /\ pc[t] = "idle"
    /\ inputChan # <<>>
    /\ inputChan' = Tail(inputChan)
    /\ tested' = tested + 1
    /\ loc' = [loc EXCEPT ![t] = [NoLoc EXCEPT !.item = Head(inputChan).id,
                                               !.ip = Head(inputChan).ip,
                                               !.afterFail = failed > 0]]
    /\ pc' = [pc EXCEPT ![t] = "testing"]
    /\ UNCHANGED <<permVars, iters, cur, calls, configVars, mainpc, trace,
                   callers, dials, chanClosed, failed, grpErr, prod, ctxDone>>

\* testWithDialer(ctx, dial, expectedIP): the request through the closure
\* (bind+verify on "tcp") and the comparison of the address the echo service
\* saw with expectedIP; TRUE when it returns nil
testWithDialer(registry, expectedIP, d, seen) ==
    /\ BindVerify(registry, "tcp", expectedIP, d).res.kind = "conn"
    /\ seen = expectedIP

\* the worker tests the value it holds and counts a failure in failed
WorkerTest(t) ==
    /\ mainpc = "run"
    /\ pc[t] = "testing"
    /\ \E d \in DialOutcomes(loc[t].ip),
          seen \in {loc[t].ip, HostIP(loc[t].ip.is4)} :
         LET ok == testWithDialer(broadcastAddrs, loc[t].ip, d, seen)
         IN  /\ calls' = Append(calls, [item      |-> loc[t].item,
                                        ip        |-> loc[t].ip,
                                        worker    |-> t,
                                        afterFail |-> loc[t].afterFail,
                                        ok        |-> ok])
             /\ failed' = IF ok THEN failed ELSE failed + 1
    /\ pc' = [pc EXCEPT ![t] = "idle"]
    /\ loc' = [loc EXCEPT ![t] = NoLoc]
    /\ UNCHANGED <<permVars, iters, cur, configVars, mainpc, trace, callers,
                   dials, inputChan, chanClosed, tested, grpErr, prod,
                   ctxDone>>

\* the worker finds the channel closed and empty: return nil
WorkerClosed(t) ==
    /\ mainpc = "run"
    /\ pc[t] = "idle"
    /\ inputChan = <<>>
    /\ chanClosed
    /\ pc' = [pc EXCEPT ![t] = "exited"]
    /\ UNCHANGED <<permVars, iters, cur, calls, configVars, mainpc, loc,
                   trace, callers, dials, testVars>>

\* the worker finds grpCtx done: return grpCtx.Err(), which the group keeps
\* when it is the first error a goroutine returned
WorkerCancelled(t) ==
    /\ mainpc = "run"
    /\ pc[t] = "idle"
    /\ GrpCtxDone
    /\ pc' = [pc EXCEPT ![t] = "exited"]
    /\ grpErr' = IF grpErr = "nil" THEN "context canceled" ELSE grpErr
    /\ UNCHANGED <<permVars, iters, cur, calls, configVars, mainpc, loc,
                   trace, callers, dials, inputChan, chanClosed, failed,
                   tested, prod, ctxDone>>

\* what test() returns once group.Wait() has returned err
TestResult(err, failedCount) ==
    IF err # "nil" THEN "exit1"
    ELSE IF failedCount > 0 THEN "exit1"
    ELSE "exit0"

\* group.Wait() returns when every goroutine has; main exits on the result
TestWait ==
    /\ mainpc = "run"
    /\ prod.pc = "done"
    /\ \A t \in Tasks : pc[t] = "exited"
    /\ mainpc' = TestResult(grpErr, failed)
    /\ UNCHANGED <<permVars, iters, cur, calls, configVars, pc, loc, trace,
                   callers, dials, testVars>>

NextTest ==
    \/ TestNew
    \/ ProducerNextDial
    \/ ProducerSend
    \/ \E t \in Tasks : WorkerRecv(t)
    \/ \E t \in Tasks : WorkerTest(t)
    \/ \E t \in Tasks : WorkerClosed(t)
    \/ \E t \in Tasks : WorkerCancelled(t)
    \/ TestWait

SpecTest == InitTest /\ [][NextTest]_vars

\* the context passed to test() is cancelled while test() runs
ContextCancelled ==
    /\ mainpc = "run"
    /\ ~ctxDone
    /\ ctxDone' = TRUE
    /\ UNCHANGED <<permVars, iters, cur, calls, configVars, mainpc, pc, loc,
                   trace, callers, dials, inputChan, chanClosed, failed,
                   tested, grpErr, prod>>

NextTestCtx ==
    \/ NextTest
    \/ ContextCancelled

\* test() under a context that can be cancelled; main passes
\* context.Background(), which SpecTest has
SpecTestCtx == InitTest /\ [][NextTestCtx]_vars

(***************************************************************************)
(* Two randomized instances over one range                                 *)
(***************************************************************************)
\* positions of a sequence that are compared
MaxEarly == 3

PairRanges == { << <<>>, Big(100) >>, << Big(5), Big(8) >> }
\* pairs (rangeOffset, outputOffset) two constructors can draw
PairOffsets ==
    { << <<>>, <<1>> >>,
      << Big(5), Big(101) >>,
      << BSub(Two32, <<1>>), <<2>> >> }

\* iters holds two RandomParallelIterators and ur two RandomUniqueRands, all
\* over one range, the k-th ones with the k-th pair of offsets drawn
InitPair ==
    /\ \E r \in PairRanges, o1 \in PairOffsets, o2 \in PairOffsets :
         /\ iters = << NewRandomParallelIterator(r[1], r[2], o1[1], o1[2]),
                       NewRandomParallelIterator(r[1], r[2], o2[1], o2[2]) >>
         /\ ur = << NewRandomUniqueRand(r[1], r[2], o1[1], o1[2]),
                    NewRandomUniqueRand(r[1], r[2], o2[1], o2[2]) >>
    /\ out = {}
    /\ cur = 0
    /\ calls = <<>>
    /\ prefix = Pfx(TRUE, <<>>, 0)
    /\ cidrBits = 0
    /\ subnetCount = <<>>
    /\ mainpc = "pair"
    /\ interfaces = {}
    /\ broadcastAddrs = {}
    /\ conflictIPs = {}
    /\ pc = [t \in Tasks |-> "idle"]
    /\ loc = [t \in Tasks |-> NoLoc]
    /\ trace = << <<>>, <<>> >>
    /\ callers = {}
    /\ dials = 0
    /\ TestIdle

\* iters[k].Next(): the value is appended to the sequence of instance k
PairNext ==
    /\ mainpc = "pair"
    /\ \E k \in 1..2 :
         LET n == RPINext(iters[k], iters[k].iter.index)
         IN  /\ Len(trace[k]) < MaxEarly
             /\ n.ok
             /\ iters' = [iters EXCEPT ![k].iter.index = AtomicAddUint64(@)]
             /\ trace' = [trace EXCEPT ![k] = Append(@, n.val)]
    /\ UNCHANGED <<testVars, permVars, cur, calls, configVars, mainpc, pc,
                   loc, callers, dials>>

\* ur[k].NextAt(i) for the next index i of instance k
PairNextAt ==
    /\ mainpc = "pair"
    /\ \E k \in 1..2 :
         LET i == Cardinality({ o \in out : o[1] = k })
         IN  /\ i < MaxEarly
             /\ BLt(Big(i), ur[k].size)
             /\ out' = out \cup { <<k, i, RURNextAt(ur[k], Big(i))>> }
    /\ UNCHANGED <<testVars, ur, iters, cur, calls, configVars, mainpc, pc,
                   loc, trace, callers, dials>>

NextPair ==
    \/ PairNext
    \/ PairNextAt

SpecPair == InitPair /\ [][NextPair]_vars

(***************************************************************************)
(* NextAt calls and what they leave behind                                 *)
(***************************************************************************)
\* calls made on the instances
MaxAtCalls == 4
\* indexes passed to NextAt
MaxAtIndex == 2

\* NextAt whose result is built in the big.Int that ur.low points to
NextAtIntoLow(u, index) ==
    LET v == NextAt(u, index)
    IN  [val |-> v, ur |-> [u EXCEPT !.low = v], index |-> index]

\* (ur *UniqueRand).NextAt(index) with the objects it leaves: every big.Int it
\* writes (result, a, c) comes from new(big.Int), so *ur and *index are as
\* they were
NextAtEffect(u, index) ==
    [val |-> NextAt(u, index), ur |-> u, index |-> index]

\* (ru *RandomUniqueRand).NextAt(index) with the objects it leaves
RURNextAtEffect(ru, index) ==
    LET e  == NextAtEffect(ru.iter, index)
        r2 == [ru EXCEPT !.iter = e.ur]
    IN  [val |-> RURNextAt(r2, index), ur |-> r2, index |-> e.index]

\* sizes on the 32-bit, the 64-bit and the big.Int path
AtSizes == { Big(3), BAdd(Two32, <<1>>), BAdd(Two64, Big(3)) }

\* the rangeOffset and the outputOffset NewRandomUniqueRand drew
AtOffsets == << Big(5), Big(101) >>

\* iters[1] is a ParallelIterator, iters[1].ur the UniqueRand the calls share;
\* ur is a RandomUniqueRand
InitAt ==
    /\ \E l \in 0..(MaxLow - 1), n \in AtSizes :
         /\ iters = << NewParallelIterator(Big(l), BAdd(Big(l), n)) >>
         /\ ur = NewRandomUniqueRand(Big(l), BAdd(Big(l), n),
                                     AtOffsets[1], AtOffsets[2])
    /\ out = {}
    /\ cur = 0
    /\ calls = <<>>
    /\ prefix = Pfx(TRUE, <<>>, 0)
    /\ cidrBits = 0
    /\ subnetCount = <<>>
    /\ mainpc = "at"
    /\ interfaces = {}
    /\ broadcastAddrs = {}
    /\ conflictIPs = {}
    /\ pc = [t \in Tasks |-> "idle"]
    /\ loc = [t \in Tasks |-> NoLoc]
    /\ trace = <<>>
    /\ callers = {}
    /\ dials = 0
    /\ TestIdle

\* iters[1].ur.NextAt(index)
AtNextAt ==
    /\ mainpc = "at"
    /\ Len(calls) < MaxAtCalls
    /\ \E i \in 0..MaxAtIndex :
         LET e == NextAtEffect(iters[1].ur, Big(i))
         IN  /\ iters' = [iters EXCEPT ![1].ur = e.ur]
             /\ calls' = Append(calls, [op |-> "NextAt", index |-> Big(i),
                                        val |-> e.val, after |-> e.index])
    /\ UNCHANGED <<testVars, permVars, cur, configVars, mainpc, pc, loc,
                   trace, callers, dials>>

\* ur.NextAt(index) on the RandomUniqueRand
AtRandomNextAt ==
    /\ mainpc = "at"
    /\ Len(calls) < MaxAtCalls
    /\ \E i \in 0..MaxAtIndex :
         LET e == RURNextAtEffect(ur, Big(i))
         IN  /\ ur' = e.ur
             /\ calls' = Append(calls, [op |-> "RandomNextAt",
                                        index |-> Big(i),
                                        val |-> e.val, after |-> e.index])
    /\ UNCHANGED <<testVars, out, iters, cur, configVars, mainpc, pc, loc,
                   trace, callers, dials>>

\* iters[1].Next(): the counter is taken, then NextAt runs on the shared
\* UniqueRand
AtNext ==
    /\ mainpc = "at"
    /\ Len(calls) < MaxAtCalls
    /\ LET idx == iters[1].index
           e   == NextAtEffect(iters[1].ur, idx)
       IN  /\ BLt(idx, iters[1].ur.size)
           /\ iters' = [iters EXCEPT ![1].index = AtomicAddUint64(idx),
                                     ![1].ur = e.ur]
           /\ calls' = Append(calls, [op |-> "Next", index |-> idx,
                                      val |-> e.val, after |-> e.index])
    /\ UNCHANGED <<testVars, permVars, cur, configVars, mainpc, pc, loc,
                   trace, callers, dials>>

NextStateless ==
    \/ AtNextAt
    \/ AtRandomNextAt
    \/ AtNext

SpecAt == InitAt /\ [][NextStateless]_vars

(***************************************************************************)
(* The broadcast scan as a function of the prefix and the interfaces       *)
(***************************************************************************)
ScanPrefixes ==
    { Pfx(TRUE, IPv4(10, 0, 0, 0), 24),
      Pfx(TRUE, IPv4(10, 0, 0, 77), 24),
      Pfx(TRUE, IPv4(10, 0, 255, 0), 24),
      Pfx(TRUE, IPv4(10, 0, 0, 0), 8),
      Pfx(TRUE, <<>>, 0),
      Pfx(FALSE, Doc6, 32) }

\* interface addresses with their masks: IPv4, IPv6 and IPv4-mapped IPv6
ScanAddrs ==
    { Pfx(TRUE, IPv4(10, 0, 0, 5), 24),
      Pfx(TRUE, IPv4(10, 0, 1, 5), 16),
      Pfx(TRUE, IPv4(10, 0, 0, 9), 8),
      Pfx(TRUE, IPv4(192, 168, 1, 7), 24),
      Pfx(FALSE, BAdd(Doc6, <<1>>), 64),
      Pfx(FALSE, BAdd(BMul(Big(65535), Two32), IPv4(10, 0, 0, 5)), 120) }

InitScan ==
    /\ ur = [err |-> TRUE]
    /\ out = {}
    /\ iters = <<>>
    /\ cur = 0
    /\ calls = <<>>
    /\ prefix \in ScanPrefixes
    /\ cidrBits = prefix.bits
    /\ subnetCount = <<>>
    /\ mainpc = "scan"
    /\ interfaces \in SUBSET ScanAddrs
    /\ broadcastAddrs = {}
    /\ conflictIPs = {}
    /\ pc = [t \in Tasks |-> "idle"]
    /\ loc = [t \in Tasks |-> NoLoc]
    /\ trace = <<>>
    /\ callers = {}
    /\ dials = 0
    /\ TestIdle

NextScan == CheckHostConflicts

SpecScan == InitScan /\ [][NextScan]_vars

(***************************************************************************)
(* UniqueRand.NextAt on ranges of more than 2^32 elements                  *)
(***************************************************************************)
\* a fifth of 2^32 + 4
FifthOfSize == Big(858993460)

\* sizes above 2^32: the size of Test64BitPath, sizes next to 2^32 and the
\* first size of the big.Int path
Sizes64 ==
    { BAdd(Two32, <<1>>), BAdd(Two32, Big(4)), BAdd(Two32, Big(1000)), Two64 }

\* indexes NextAt is called with: the first ones, the last one and two far
\* from both ends
Indexes64(size) ==
    { <<>>, <<1>>, <<2>>, FifthOfSize, BMul(<<2>>, FifthOfSize),
      BSub(size, <<1>>) }

InitPerm64 ==
    /\ \E l \in 0..(MaxLow - 1), n \in Sizes64 :
         ur = NewUniqueRand(Big(l), BAdd(Big(l), n))
    /\ out = {}
    /\ iters = <<>>
    /\ cur = 0
    /\ calls = <<>>
    /\ prefix = Pfx(TRUE, <<>>, 0)
    /\ cidrBits = 0
    /\ subnetCount = <<>>
    /\ mainpc = "perm64"
    /\ interfaces = {}
    /\ broadcastAddrs = {}
    /\ conflictIPs = {}
    /\ pc = [t \in Tasks |-> "idle"]
    /\ loc = [t \in Tasks |-> NoLoc]
    /\ trace = <<>>
    /\ callers = {}
    /\ dials = 0
    /\ TestIdle

\* ur.NextAt(index) for an index inside [0, size)
NextAt64Call ==
    /\ mainpc = "perm64"
    /\ \E i \in Indexes64(ur.size) :
         /\ \A o \in out : o[1] # i
         /\ out' = out \cup { <<i, NextAt(ur, i)>> }
    /\ UNCHANGED <<testVars, ur, iters, cur, calls, configVars, mainpc, pc,
                   loc, trace, callers, dials>>

NextPerm64 == NextAt64Call

SpecPerm64 == InitPerm64 /\ [][NextPerm64]_vars

(***************************************************************************)
(* The LCG fallback of permute32 as a function of the size and the index   *)
(***************************************************************************)
\* sizes the fallback map is applied to
MaxLCGSize == 7

\* a size reaches the fallback when M is degenerate for it and no alternative
\* multiplier qualifies
ReachesFallback(modulus) ==
    /\ BLt(<<1>>, modulus)
    /\ BMod(multiplier, U64(modulus)) = <<1>>
    /\ FirstAlternative(modulus, 1) = <<>>

InitLCG ==
    /\ \E n \in 1..MaxLCGSize : ur = NewUniqueRand(<<>>, Big(n))
    /\ out = {}
    /\ iters = <<>>
    /\ cur = 0
    /\ calls = <<>>
    /\ prefix = Pfx(TRUE, <<>>, 0)
    /\ cidrBits = 0
    /\ subnetCount = <<>>
    /\ mainpc = "lcg"
    /\ interfaces = {}
    /\ broadcastAddrs = {}
    /\ conflictIPs = {}
    /\ pc = [t \in Tasks |-> "idle"]
    /\ loc = [t \in Tasks |-> NoLoc]
    /\ trace = <<>>
    /\ callers = {}
    /\ dials = 0
    /\ TestIdle

\* the fallback applied to an index inside [0, size)
LCGCall ==
    /\ mainpc = "lcg"
    /\ \E i \in 0..(MaxLCGSize - 1) :
         /\ BLt(Big(i), ur.size)
         /\ \A o \in out : o[1] # i
         /\ out' = out \cup { <<i, permute32LCG(Big(i), ur.size32)>> }
    /\ UNCHANGED <<testVars, ur, iters, cur, calls, configVars, mainpc, pc,
                   loc, trace, callers, dials>>

NextLCG == LCGCall

SpecLCG == InitLCG /\ [][NextLCG]_vars

(***************************************************************************)
(* The closures NextDial returns, kept by a caller and invoked later       *)
(***************************************************************************)
\* NextDial calls whose closure the caller keeps
MaxKept == 3
\* invocations of kept closures
MaxInvocations == 2

\* two subnets each, so that the third NextDial resets; the upper half of
\* 10.0.0.0/24 holds the broadcast address of the host's interface
KeptCmdLines ==
    { [cidr |-> Pfx(TRUE, IPv4(10, 0, 0, 0), 24), flag |-> 25],
      [cidr |-> Pfx(TRUE, IPv4(10, 0, 0, 1), 31), flag |-> 32] }

\* a closure that binds to the IP the dialer drew last
LatestSource(c, tr) == tr[Len(tr)].ip

\* the sourceIP of the closure d: the variable ip of the NextDial call that
\* made it, which nothing else refers to
ClosureSource(c, tr) == c.ip

\* the dialer is constructed and the broadcast scan has run
InitKept ==
    /\ ur = [err |-> TRUE]
    /\ out = {}
    /\ \E cl \in KeptCmdLines, o \in Offsets :
         /\ prefix = cl.cidr
         /\ cidrBits = cl.flag
         /\ subnetCount = subnetCount64(cl.cidr, cl.flag)
         /\ iters = << NewRandomParallelIterator(
                          <<>>, subnetCount64(cl.cidr, cl.flag), o[1], o[2]) >>
    /\ cur = 1
    /\ calls = <<>>
    /\ mainpc = "kept"
    /\ interfaces = HostInterfaces
    /\ broadcastAddrs = CheckHostConflictsOf(prefix, HostInterfaces)
    /\ conflictIPs = CheckHostConflictsOf(prefix, HostInterfaces)
    /\ pc = [t \in Tasks |-> "idle"]
    /\ loc = [t \in Tasks |-> NoLoc]
    /\ trace = <<>>
    /\ callers = {}
    /\ dials = 0
    /\ TestIdle

\* the IP and the closure of NextDial for the subnet index n of iterator itp
KeptTakes(n, itp) ==
    LET r == nthSubnet(prefix, cidrBits, U64(n))
    IN  /\ r.ok
        /\ \E rb \in RandomBytes :
             /\ out' = out \cup { [id |-> dials + 1,
                                   ip |-> randomIP(r.prefix, rb)] }
             /\ trace' = Append(trace, [it     |-> itp,
                                        subnet |-> r.prefix,
                                        ip     |-> randomIP(r.prefix, rb)])

\* ip, d, err := it.NextDial() by one caller: NextIP with its reset on
\* exhaustion, randomIP and the closure over ip, which the caller keeps
NextDialKept ==
    /\ mainpc = "kept"
    /\ dials < MaxKept
    /\ dials' = dials + 1
    /\ LET n1   == RPINext(iters[cur], iters[cur].iter.index)
           used == [iters EXCEPT ![cur].iter.index = AtomicAddUint64(@)]
       IN  IF n1.ok
           THEN /\ iters' = used
                /\ cur' = cur
                /\ KeptTakes(n1.val, cur)
           ELSE \E o \in Offsets :
                  LET fresh == NewRandomParallelIterator(
                                  <<>>, subnetCount, o[1], o[2])
                      n2    == RPINext(fresh, fresh.iter.index)
                  IN  /\ iters' = Append(used,
                             [fresh EXCEPT !.iter.index = AtomicAddUint64(@)])
                      /\ cur' = Len(iters) + 1
                      /\ n2.ok
                      /\ KeptTakes(n2.val, Len(iters) + 1)
    /\ UNCHANGED <<testVars, ur, calls, configVars, mainpc, pc, loc, callers>>

\* d(ctx, network, addr) for a kept closure d: createDialerWithSourceIP with
\* the closure's sourceIP; the result is recorded with the closure's id
DialFuncCall ==
    /\ mainpc = "kept"
    /\ Len(calls) < MaxInvocations
    /\ \E c \in out, network \in Networks :
         \E d \in DialOutcomes(ClosureSource(c, trace)) :
            LET b == BindVerify(broadcastAddrs, network,
                                ClosureSource(c, trace), d)
            IN  calls' = Append(calls, [closure |-> c.id,
                                        made    |-> dials,
                                        res     |-> b.res,
                                        conn    |-> b.conn])
    /\ UNCHANGED <<testVars, permVars, iters, cur, configVars, mainpc, pc,
                   loc, trace, callers, dials>>

NextKept ==
    \/ NextDialKept
    \/ DialFuncCall

SpecKept == InitKept /\ [][NextKept]_vars

(***************************************************************************)
(* Properties                                                              *)
(***************************************************************************)
InRange(v, low, size) == BLe(low, v) /\ BLt(v, BAdd(low, size))

\* C1: a bind+verify call whose connection reports a local IP other than the
\* intended source IP closes that connection and returns an IPBindLeakError
\* carrying the intended and the actual IP; it returns a connection only when
\* the reported local IP equals the intended one.
C1_LeakFailSafe ==
    \A t \in Tasks :
        pc[t] = "done" =>
            /\ (loc[t].conn # <<>> /\ loc[t].conn[1].local # loc[t].ip) =>
                  /\ ~loc[t].conn[1].open
                  /\ loc[t].res.kind = "IPBindLeakError"
                  /\ loc[t].res.IP = loc[t].ip
                  /\ loc[t].res.ActualIP = loc[t].conn[1].local
            /\ loc[t].res.kind = "conn" =>
                  /\ loc[t].conn # <<>>
                  /\ loc[t].conn[1].open
                  /\ loc[t].conn[1].local = loc[t].ip

\* a connect that succeeded from another address than the intended one
C1_Witness ==
    \E t \in Tasks :
        /\ pc[t] = "done"
        /\ loc[t].conn # <<>>
        /\ loc[t].conn[1].local # loc[t].ip
        /\ loc[t].res.kind = "IPBindLeakError"

\* C2: NextAt maps the indices of [0, size) to pairwise distinct values of
\* [low, low+size), for every size >= 1.
C2_Bijection ==
    /\ \A o \in out : InRange(o[2], ur.low, ur.size)
    /\ \A o1, o2 \in out : o1[1] # o2[1] => o1[2] # o2[2]

\* C3: the successful Next() calls of a RandomParallelIterator return pairwise
\* distinct values of [low, high), at most size of them, and a call returns
\* false only when the size values have been handed out.
C3_DrainedOnce ==
    LET ri == iters[1]
        ok == { i \in 1..Len(calls) : calls[i].ok }
    IN  /\ \A i \in ok : InRange(calls[i].val, ri.originalLow, ri.size)
        /\ \A i, j \in ok : i # j => calls[i].val # calls[j].val
        /\ BLe(Big(Cardinality(ok)), ri.size)
        /\ \A i \in 1..Len(calls) :
              ~calls[i].ok => BLe(ri.size, Big(calls[i].idx))

\* C4: concurrent Next() calls of one ParallelIterator observe pairwise
\* distinct counter values, each larger than every value observed by a call
\* that completed before the call started; no two successful calls return
\* the same value and at most size calls succeed.
C4_Linearizable ==
    LET ri == iters[1]
        ok == { i \in 1..Len(calls) : calls[i].ok }
    IN  /\ \A i, j \in 1..Len(calls) : i # j => calls[i].idx # calls[j].idx
        /\ \A i \in 1..Len(calls) : calls[i].snap < calls[i].idx
        /\ \A i, j \in ok : i # j => calls[i].inner # calls[j].inner
        /\ BLe(Big(Cardinality(ok)), ri.size)

\* the pass a NextIP call of a single caller belongs to (0 for calls 1..N)
Pass(i) ==
    IF BLt(Big(i - 1), subnetCount) THEN 0
    ELSE (i - 1) \div Small(subnetCount)

\* C5: with a single caller, the NextIP calls of one pass (calls c*N+1 to
\* (c+1)*N) return pairwise distinct subnets, and the iterator is replaced
\* only at the first call of each later pass.
C5_PassesDistinct ==
    Cardinality(callers) <= 1 =>
        /\ \A i, j \in 1..Len(trace) :
              (i # j /\ Pass(i) = Pass(j)) =>
                  trace[i].subnet # trace[j].subnet
        /\ \A i \in 1..Len(trace) : trace[i].it = Pass(i) + 1

AddrOf(p) == [is4 |-> p.is4, a |-> p.addr]
Bound(t) == pc[t] = "bind" \/ (pc[t] = "done" /\ loc[t].res.kind # "error")

\* C6: every subnet NextIP returns has the inner width and lies inside the
\* configured prefix, and so does every IP NextDial returns.
C6_Containment ==
    /\ \A i \in 1..Len(trace) :
          /\ trace[i].subnet.bits = cidrBits
          /\ Contains(prefix, AddrOf(trace[i].subnet))
    /\ \A t \in Tasks : Bound(t) => Contains(prefix, loc[t].ip)

Exhausted(ri) == BLe(ri.size, ri.iter.index)

\* C7: the dialer's iterator is replaced only when it is exhausted, so a
\* freshly installed iterator is never replaced before it is used up.
C7_ResetSerialized ==
    [][(cur # 0 /\ cur' # cur) => Exhausted(iters[cur])]_vars

\* C8: a bind+verify call for a registered broadcast address returns an
\* IPBindBroadcastError and opens no socket, on every call after the scan;
\* the scan of interface 10.0.0.5/24 registers 10.0.0.255 for 10.0.0.0/24.
C8_BroadcastRefused ==
    /\ \A t \in Tasks :
          (pc[t] = "done" /\ loc[t].ip \in broadcastAddrs) =>
              /\ loc[t].res = [kind |-> "IPBindBroadcastError",
                               IP |-> loc[t].ip]
              /\ loc[t].conn = <<>>
    /\ (mainpc \in {"new", "serve", "crashed"}
          /\ prefix = Pfx(TRUE, IPv4(10, 0, 0, 0), 24)) =>
          [is4 |-> TRUE, a |-> IPv4(10, 0, 0, 255)] \in broadcastAddrs

\* a call for 10.0.0.255 has been refused
C8_Witness ==
    \E t \in Tasks :
        /\ pc[t] = "done"
        /\ loc[t].ip = [is4 |-> TRUE, a |-> IPv4(10, 0, 0, 255)]
        /\ loc[t].res.kind = "IPBindBroadcastError"

\* C9: a Next() call that starts after a call has returned false returns
\* false.
C9_StickyExhaustion ==
    \A i \in 1..Len(calls) : calls[i].exh => ~calls[i].ok

\* a call that started after exhaustion was reported, on a range that had
\* values to return
C9_Witness ==
    \E i, j \in 1..Len(calls) :
        /\ calls[i].ok
        /\ calls[j].exh
        /\ ~calls[j].ok

\* C10: with k - p = 32 the NextIP calls of the first pass return pairwise
\* distinct /k subnets, each inside the outer prefix.
C10_FirstPass32 ==
    cidrBits - prefix.bits = 32 =>
        /\ \A i, j \in 1..Len(trace) :
              (i # j /\ trace[i].it = 1 /\ trace[j].it = 1) =>
                  trace[i].subnet # trace[j].subnet
        /\ \A i \in 1..Len(trace) :
              /\ trace[i].subnet.bits = cidrBits
              /\ Contains(prefix, AddrOf(trace[i].subnet))

\* the constructor has returned: a dialer, or an error and no dialer
Constructed == mainpc = "serve" /\ cur # 0
Refused == mainpc = "fatal" /\ cur = 0 /\ iters = <<>>

\* C11: for p < k with k - p <= 64 (k inside the address width)
\* subnetCount64 is 2^(k-p), and NewRandomIPIterator constructs a dialer whose
\* Size() is 2^(k-p).
C11_CountPow2 ==
    (/\ mainpc \in {"serve", "fatal"}
     /\ prefix.bits < cidrBits
     /\ cidrBits - prefix.bits <= 64
     /\ cidrBits <= AddrBits(prefix.is4)) =>
        /\ Constructed
        /\ subnetCount = BPow2(cidrBits - prefix.bits)

\* C12: for k <= p and for k - p > 64 the count is 0 and NewRandomIPIterator
\* returns an error and no dialer; nthSubnet is not-ok for every n >= count.
C12_OutOfDomain ==
    /\ (/\ mainpc \in {"serve", "fatal"}
        /\ (cidrBits <= prefix.bits \/ cidrBits - prefix.bits > 64)) =>
           /\ subnetCount64(prefix, cidrBits) = <<>>
           /\ Refused
    /\ mainpc \in {"serve", "fatal"} =>
           (subnetCount64(prefix, cidrBits) = <<>> <=> Refused)
    /\ \A o \in out :
           BLe(subnetCount64(prefix, cidrBits), o[1]) =>
               (~o[2].ok /\ ~o[2].panic)

\* k = p + 65 was refused, and nthSubnet has been asked for an index
C12_Witness ==
    /\ cidrBits = prefix.bits + 65
    /\ Refused
    /\ \E o \in out : ~o[2].ok

\* C13: an inner width above the address width is a configuration error: no
\* dialer is constructed with it and no NextIP call crashes because of it.
C13_WidthRejected ==
    cidrBits > AddrBits(prefix.is4) =>
        /\ mainpc \notin {"serve", "crashed"}
        /\ cur = 0
        /\ \A t \in Tasks : pc[t] # "panic"

\* the size an accepted constructor call has stored
StoredSize(c) ==
    IF c.ctor = "NewUniqueRand" THEN c.res.size
    ELSE IF c.ctor = "NewParallelIterator" THEN c.res.ur.size
    ELSE c.res.size

\* C14: each of the four constructors returns an error exactly when
\* low > high; every range with low <= high is accepted with size high - low.
C14_CtorAccepts ==
    \A c \in out :
        /\ c.res.err <=> BLt(c.high, c.low)
        /\ ~c.res.err => StoredSize(c) = BSub(c.high, c.low)

\* a range of 2^127 elements was accepted and a range with low > high refused
C14_Witness ==
    /\ \E c \in out : ~c.res.err /\ BSub(c.high, c.low) = BPow2(127)
    /\ \E c \in out : c.res.err /\ BLt(c.high, c.low)

\* test() has returned
TestOver == mainpc \in {"exit0", "exit1"} /\ cur # 0

\* C15: test mode produces one (ip, dial) pair per subnet, so the pairs
\* produced are of pairwise distinct subnets; when test() returns without
\* cancellation, Size() pairs were produced, each pair was tested exactly
\* once, and the result is an error exactly when a test failed.
C15_TestComplete ==
    /\ \A i, j \in 1..Len(trace) :
          i # j => trace[i].subnet # trace[j].subnet
    /\ (TestOver /\ grpErr = "nil") =>
          LET total == Small(subnetCount)
          IN  /\ Len(trace) = total
              /\ Len(calls) = total
              /\ tested = total
              /\ \A k \in 1..total :
                    Cardinality({ i \in 1..Len(calls) :
                                    calls[i].item = k }) = 1
              /\ \A i \in 1..Len(calls) :
                    calls[i].ip = trace[calls[i].item].ip
              /\ failed = Cardinality({ i \in 1..Len(calls) : ~calls[i].ok })
              /\ mainpc = "exit1" <=> \E i \in 1..Len(calls) : ~calls[i].ok

\* C16: test mode fails immediately: once a test has failed no further source
\* IP is tested, and the run ends with failure.
C16_FailFast ==
    /\ \A i \in 1..Len(calls) : ~calls[i].afterFail
    /\ \A t \in Tasks : pc[t] = "testing" => ~loc[t].afterFail
    /\ (TestOver /\ failed > 0) => mainpc = "exit1"

\* the number of positions compared on a range of the given size
Early(size) == IF BLt(size, Big(MaxEarly)) THEN Small(size) ELSE MaxEarly

\* the NextAt values instance k has returned, by index
NextAtOf(k) == { <<o[2], o[3]>> : o \in { x \in out : x[1] = k } }

\* the two instances drew different range offsets and different output offsets
DrewDifferent ==
    /\ iters[1].rangeOffset # iters[2].rangeOffset
    /\ iters[1].outputOffset # iters[2].outputOffset

\* C17: two randomized instances over one range whose constructors drew
\* different offsets return the same set of values in sequences that differ in
\* an early position, for RandomParallelIterator (Next) and for
\* RandomUniqueRand (NextAt).
C17_InstancesDiffer ==
    LET n == Early(iters[1].size)
    IN  DrewDifferent =>
          /\ (Len(trace[1]) = n /\ Len(trace[2]) = n) =>
                /\ trace[1] # trace[2]
                /\ BLe(iters[1].size, Big(n)) =>
                      { trace[1][i] : i \in 1..n } = { trace[2][i] : i \in 1..n }
          /\ (Cardinality(NextAtOf(1)) = n /\ Cardinality(NextAtOf(2)) = n) =>
                NextAtOf(1) # NextAtOf(2)

ByteOf(a, i) ==
    CHOOSE b \in 0..255 :
        ClearLow(BMod(a, BPow2(8 * (4 - i))), 8 * (3 - i))
          = BMul(Big(b), BPow2(8 * (3 - i)))

\* the number of host bits the mask leaves in byte i
HostBitsIn(bits, i) ==
    IF bits >= 8 * (i + 1) THEN 0
    ELSE IF bits <= 8 * i THEN 8 ELSE 8 * (i + 1) - bits

\* ip[i] | ^mask[i]
OrNotMask(b, k) == b - (b % (2 ^ k)) + (2 ^ k - 1)

\* ip | ^mask, byte by byte
BroadcastOf(ifaddr) ==
    IPv4(OrNotMask(ByteOf(ifaddr.addr, 0), HostBitsIn(ifaddr.bits, 0)),
         OrNotMask(ByteOf(ifaddr.addr, 1), HostBitsIn(ifaddr.bits, 1)),
         OrNotMask(ByteOf(ifaddr.addr, 2), HostBitsIn(ifaddr.bits, 2)),
         OrNotMask(ByteOf(ifaddr.addr, 3), HostBitsIn(ifaddr.bits, 3)))

\* the broadcast addresses of the IPv4 interface addresses that lie inside
\* the prefix
ExpectedBroadcasts ==
    { [is4 |-> TRUE, a |-> BroadcastOf(b)] :
        b \in { c \in interfaces :
                  /\ c.is4
                  /\ prefix.is4
                  /\ InRange(BroadcastOf(c),
                             ClearLow(prefix.addr, 32 - prefix.bits),
                             BPow2(32 - prefix.bits)) } }

ScanOver == mainpc \in {"new", "fatal"}

\* C19: after one CheckHostConflicts(prefix) on an empty registry the registry
\* and the returned list are exactly the addresses ip | ^mask of the IPv4
\* interface addresses that lie inside the prefix; IPv6 interface addresses
\* contribute nothing.
C19_ScanExact ==
    ScanOver =>
        /\ mainpc = "new"
        /\ broadcastAddrs = ExpectedBroadcasts
        /\ conflictIPs = ExpectedBroadcasts

\* the Dial call of task t is over: it has returned or it has panicked
DialOver(t) == mainpc \in {"serve", "crashed"} /\ pc[t] \in {"done", "panic"}

\* C20: a Dial call makes exactly one bind+verify attempt and takes exactly
\* one position of the subnet sequence, whether it succeeds or fails: never
\* more than one of either while it runs, and one of each when it is over.
C20_OneAttempt ==
    \A t \in Tasks :
        /\ loc[t].attempts <= 1
        /\ loc[t].drawn <= 1
        /\ DialOver(t) => (loc[t].attempts = 1 /\ loc[t].drawn = 1)

\* the pull that followed the reset of task t reported exhaustion: index is
\* nil and index.Uint64() has panicked
SecondMiss(t) == pc[t] = "panic" /\ loc[t].phase = 2 /\ loc[t].drawn = 0

\* C21: NextIP returns a subnet or an error: a call resets at most once, and
\* when the pull after the reset reports exhaustion again the call does not
\* use the missing index.
C21_SecondMissSurfaced == \A t \in Tasks : ~SecondMiss(t)

\* C22: on a range of more than 2^32 and at most 2^64 elements NextAt gives
\* distinct values of [low, low+size) for distinct indexes.
C22_Injective64 ==
    /\ \A o \in out : InRange(o[2], ur.low, ur.size)
    /\ \A o1 \in out : \A o2 \in out : o1[1] # o2[1] => o1[2] # o2[2]

\* the size of ur is one for which the multiplier M is degenerate
Degenerate ==
    /\ ur.is32bit
    /\ BLe(<<2>>, ur.size)
    /\ BMod(multiplier, ur.size) \in { <<>>, <<1>> }

\* the index i under the first fallback multiplier whose residue is neither 0
\* nor 1, or under the LCG when there is none
FallbackValue(i, size) ==
    LET alt == FirstAlternative(size, 1)
    IN  IF alt # <<>> THEN BMod(BMul(i, alt), size)
        ELSE BMod(BAdd(BMul(i, lcg32a), lcg32c), size)

\* every index below the size, or below MaxIndex, has been probed
AllProbed ==
    \A i \in 0..(MaxIndex - 1) :
        BLt(Big(i), ur.size) => \E o \in out : o[1] = i

\* C23: for a size with M mod size in {0, 1} NextAt does not multiply by M
\* but by the first fallback multiplier whose residue is neither 0 nor 1, or
\* uses the LCG when there is none; the map is neither constant nor the
\* identity.
C23_DegenerateAvoided ==
    Degenerate =>
        /\ \A o \in out :
              o[2] = BAdd(ur.low, FallbackValue(Big(o[1]), ur.size))
        /\ AllProbed =>
              /\ \E o1 \in out : \E o2 \in out : o1[2] # o2[2]
              /\ \E o \in out : o[2] # BAdd(ur.low, Big(o[1]))

\* the values of out are pairwise distinct values of [0, size)
OutInjective ==
    /\ \A o \in out : BLt(o[2], ur.size)
    /\ \A o1 \in out : \A o2 \in out : o1[1] # o2[1] => o1[2] # o2[2]

DegenerateSizes ==
    { BMul(Big((2 ^ a) * (3 ^ b) * (5 ^ c) * (17 ^ d)),
           Big((31 ^ e) * (677 ^ f))) :
        a \in 0..4, b \in 0..1, c \in 0..1, d \in 0..1, e \in 0..2,
        f \in 0..1 }

\* the size shares no prime factor with 1664525 = 5^2 * 139 * 479
CoprimeToLCG(size) ==
    /\ BMod(size, Big(5)) # <<>>
    /\ BMod(size, Big(139)) # <<>>
    /\ BMod(size, Big(479)) # <<>>

Normalized ==
    ClearLow(prefix.addr, AddrBits(prefix.is4) - prefix.bits) = prefix.addr

\* the inner width lies above p, inside the address width and inside the
\* 64 bits a count has
InnerWidthOk ==
    /\ prefix.bits < cidrBits
    /\ cidrBits <= AddrBits(prefix.is4)
    /\ cidrBits - prefix.bits <= 64

\* C25: for a normalized prefix P of width p, p < k <= A and n < 2^(k-p),
\* nthSubnet returns the /k prefix at base(P) + n * 2^(A-k), in both families;
\* the map is injective and order-preserving and every result lies in P.
C25_NthSubnetFormula ==
    (Normalized /\ InnerWidthOk) =>
        /\ \A o \in out :
              BLt(o[1], BPow2(cidrBits - prefix.bits)) =>
                 /\ o[2].ok
                 /\ ~o[2].panic
                 /\ o[2].prefix =
                      Pfx(prefix.is4,
                          BAdd(prefix.addr,
                               BMul(o[1],
                                    BPow2(AddrBits(prefix.is4) - cidrBits))),
                          cidrBits)
                 /\ Contains(prefix, [is4 |-> o[2].prefix.is4,
                                      a   |-> o[2].prefix.addr])
        /\ \A o1 \in out : \A o2 \in out :
              (/\ BLt(o1[1], o2[1])
               /\ BLt(o2[1], BPow2(cidrBits - prefix.bits))) =>
                 /\ o1[2].ok /\ o2[2].ok
                 /\ BLt(o1[2].prefix.addr, o2[2].prefix.addr)

\* the inner width is the width of the prefix, given as -subnet-size, and
\* main's validation accepts it
WidthOfPrefix ==
    /\ cidrBits = prefix.bits
    /\ cidrBits > 0
    /\ MainValidate(prefix, cidrBits).ok
    /\ MainValidate(prefix, cidrBits).subnetBits = cidrBits

\* C26: with k = p the only subnet is P itself: NewRandomIPIterator constructs
\* a dialer of one subnet and nthSubnet(P, p, 0) returns P.
C26_WholePrefix ==
    WidthOfPrefix =>
        /\ mainpc \in {"serve", "fatal"} =>
              (Constructed /\ subnetCount = <<1>>)
        /\ \A o \in out :
              o[1] = <<>> => (o[2].ok /\ o[2].prefix = prefix)

\* low + ((v - r_range - low + r_out) mod size) for an instance r, iterator or
\* RandomUniqueRand
RotatedFromZero(r, v) ==
    BAdd(r.originalLow,
         BMod(BAdd(BSub(BSub(v, r.rangeOffset), r.originalLow),
                   r.outputOffset),
              r.size))

\* low + ((v - r_range + r_out) mod size)
Rotated(r, v) ==
    BAdd(r.originalLow,
         BMod(BAdd(BSub(v, r.rangeOffset), r.outputOffset), r.size))

\* the value the underlying permutation of instance k gives at index i
Underlying(k, i) == NextAt(ur[k].iter, Big(i))

\* C27 as stated: for the value v of the underlying permutation Next and
\* NextAt return low + ((v - r_range - low + r_out) mod size), for every low.
C27_RotationFromZero ==
    /\ \A k \in 1..2 : \A j \in 1..Len(trace[k]) :
          trace[k][j] = RotatedFromZero(iters[k], Underlying(k, j - 1))
    /\ \A o \in out :
          o[3] = RotatedFromZero(ur[o[1]], Underlying(o[1], o[2]))

\* C27 as the code has it: Next and NextAt return
\* low + ((v - r_range + r_out) mod size), which is the stated value when low
\* is a multiple of size.
C27_Rotation ==
    /\ \A k \in 1..2 : \A j \in 1..Len(trace[k]) :
          /\ trace[k][j] = Rotated(iters[k], Underlying(k, j - 1))
          /\ BMod(iters[k].originalLow, iters[k].size) = <<>> =>
                trace[k][j] = RotatedFromZero(iters[k], Underlying(k, j - 1))
    /\ \A o \in out :
          /\ o[3] = Rotated(ur[o[1]], Underlying(o[1], o[2]))
          /\ BMod(ur[o[1]].originalLow, ur[o[1]].size) = <<>> =>
                o[3] = RotatedFromZero(ur[o[1]], Underlying(o[1], o[2]))

\* the range [5, 8), whose low is no multiple of its size, drained by Next on
\* the first iterator and probed at every index by NextAt
C27_Witness ==
    /\ mainpc = "pair"
    /\ iters[1].originalLow = Big(5)
    /\ iters[1].size = Big(3)
    /\ Len(trace[1]) = 3
    /\ Cardinality(NextAtOf(1)) = 3

\* the input goroutine is blocked in its send on the full channel and every
\* worker has returned: nothing will receive, group.Wait() never returns
ProducerStuck ==
    /\ mainpc = "run"
    /\ prod.pc = "send"
    /\ Len(inputChan) = TestParallel
    /\ \A t \in Tasks : pc[t] = "exited"

\* C28: test() terminates: no goroutine stays blocked forever on inputChan,
\* also when the context passed to test() is cancelled.
C28_NoGoroutineStuck == ~ProducerStuck

\* the output offsets of the two iterators are congruent modulo the size
Congruent ==
    BMod(iters[1].outputOffset, iters[1].size)
      = BMod(iters[2].outputOffset, iters[1].size)

\* the rotation that leads from the output offset of the first iterator to
\* that of the second
OffsetRotation ==
    BMod(BSub(BAdd(BMod(iters[2].outputOffset, iters[1].size), iters[1].size),
              BMod(iters[1].outputOffset, iters[1].size)),
         iters[1].size)

\* positions both iterators have produced
Common == 1..(IF Len(trace[1]) < Len(trace[2]) THEN Len(trace[1])
              ELSE Len(trace[2]))

ReturnedWith(id) == (CHOOSE c \in out : c.id = id).ip

\* C30: the DialFunc NextDial returns is bound to the IP returned with it:
\* every connection an invocation returns is open on that IP as its local
\* address, and a refusal names that IP, however often the closure is invoked
\* and whatever NextDial calls and resets came between.
C30_ClosureBound ==
    \A i \in DOMAIN calls :
        /\ calls[i].res.kind = "conn" =>
              /\ calls[i].conn[1].open
              /\ calls[i].conn[1].local = ReturnedWith(calls[i].closure)
        /\ calls[i].res.kind \in {"IPBindBroadcastError", "IPBindLeakError"} =>
              calls[i].res.IP = ReturnedWith(calls[i].closure)

\* the first closure is invoked twice, after two more NextDial calls and a
\* reset, and both invocations return a connection
C30_Witness ==
    /\ mainpc = "kept"
    /\ Len(iters) = 2
    /\ Len(calls) = 2
    /\ \A i \in 1..2 :
          /\ calls[i].closure = 1
          /\ calls[i].made = 3
          /\ calls[i].res.kind = "conn"
    /\ \E c \in out : c.id = 3 /\ c.ip # ReturnedWith(1)

====
